---- MODULE Spec2Model ----
(***************************************************************************)
(* Model of src/analysis.rs: the fixed-capacity text buffers (UciBuff,     *)
(* PvBuff) and the line decoder AnalysisInfo::parse.                       *)
(*                                                                         *)
(* Text is a sequence of bytes, a byte is a one-character string.  Values  *)
(* of the 64-bit unsigned fields are held as their canonical decimal       *)
(* numeral (a digit sequence without leading zeros), because they exceed   *)
(* the integer range of the model checker; i32 values are integers.        *)
(* usize is taken to be 64 bits wide (a 64-bit target).                    *)
(*                                                                         *)
(* Spec is the caller of the decoder: one record, parse called on it line  *)
(* after line.  BuffSpec is the user of one buffer: new, set, set_trim and *)
(* the conversions from text applied to it one after the other.            *)
(***************************************************************************)
EXTENDS Integers, Sequences, FiniteSets, TLC

VARIABLES
    self,      \* the AnalysisInfo record the caller owns
    info,      \* the line given to the latest parse call
    old,       \* the record as it was when the latest parse call began
    outcome,   \* how the latest call ended: "end", "return" or "panic"
    calls,     \* the number of parse calls made so far
    again,     \* the latest call was given the same line as the one before
    buf,       \* a buffer (UciBuff or PvBuff)
    cap,       \* its capacity, $size
    op,        \* the latest operation applied to it
    arg,       \* the text given to that operation
    trim,      \* the trim character given to it, for set_trim
    ops        \* the number of operations applied so far

pvars == <<self, info, old, outcome, calls, again>>

bvars == <<buf, cap, op, arg, trim, ops>>

vars == <<pvars, bvars>>

----------------------------------------------------------------------------
(* Bytes and text *)

NUL == "NUL"

SP == " "

DigitChars == {"0", "1", "2", "3", "4", "5", "6", "7", "8", "9"}

DigitVal(c) ==
    CASE c = "0" -> 0 [] c = "1" -> 1 [] c = "2" -> 2 [] c = "3" -> 3
      [] c = "4" -> 4 [] c = "5" -> 5 [] c = "6" -> 6 [] c = "7" -> 7
      [] c = "8" -> 8 [] c = "9" -> 9

Tail2(s) == SubSeq(s, 2, Len(s))

(* str::split(" "): the pieces between the spaces, empty pieces included; *)
(* a text with k spaces gives k + 1 pieces.                                *)
RECURSIVE Split(_)
Split(bytes) ==
    IF \A i \in 1..Len(bytes) : bytes[i] # SP THEN <<bytes>>
    ELSE LET at == CHOOSE i \in 1..Len(bytes) :
                       bytes[i] = SP /\ \A j \in 1..(i - 1) : bytes[j] # SP
         IN  <<SubSeq(bytes, 1, at - 1)>>
                 \o Split(SubSeq(bytes, at + 1, Len(bytes)))

----------------------------------------------------------------------------
(* gen_str_buff!: fixed capacity buffers *)

UCI_MAX_LENGTH == 5

UCI_TYPICAL_LENGTH == 4

MAX_PV_MOVES == 2

PV_BUFF_SIZE == MAX_PV_MOVES * (UCI_TYPICAL_LENGTH + 1)

(* The value standing for a call that panicked on a slice range. *)
PanicBuff == [len |-> -1, buff |-> <<>>]

BuffNew(size) == [len |-> 0, buff |-> [i \in 1..size |-> NUL]]

(* dst[0..len].copy_from_slice(&src[0..len]) *)
SliceInRange(n, len) == len >= 0 /\ len <= n

CopyFromSlice(dst, src, len) ==
    [i \in 1..Len(dst) |-> IF i <= len THEN src[i] ELSE dst[i]]

(* BuffFrom without the clamp of len to the capacity *)
BuffFrom_NoClamp(size, value) ==
    LET len == Len(value)
        buff == BuffNew(size)
    IN  IF SliceInRange(size, len) /\ SliceInRange(Len(value), len)
        THEN [len |-> len, buff |-> CopyFromSlice(buff.buff, value, len)]
        ELSE PanicBuff

(* impl From<&str> for $type *)
BuffFrom(size, value) ==
    LET len == IF Len(value) > size THEN size ELSE Len(value)
        buff == BuffNew(size)
    IN  IF SliceInRange(size, len) /\ SliceInRange(Len(value), len)
        THEN [len |-> len, buff |-> CopyFromSlice(buff.buff, value, len)]
        ELSE PanicBuff

(* impl From<String> for $type *)
BuffFromString(size, value) == BuffFrom(size, value)

(* BuffSet without the clamp of len to the capacity *)
BuffSet_NoClamp(b, size, value) ==
    LET len == Len(value)
    IN  IF SliceInRange(size, len) /\ SliceInRange(Len(value), len)
        THEN [len |-> len, buff |-> CopyFromSlice(b.buff, value, len)]
        ELSE PanicBuff

(* set: the bytes of the buffer beyond len stay as they were *)
BuffSet(b, size, value) ==
    LET len == IF Len(value) > size THEN size ELSE Len(value)
    IN  IF SliceInRange(size, len) /\ SliceInRange(Len(value), len)
        THEN [len |-> len, buff |-> CopyFromSlice(b.buff, value, len)]
        ELSE PanicBuff

(* chars().rev().take_while(..): the closure is called on the characters    *)
(* from the last one backwards; each call lowers total_len by one, and the *)
(* scan stops at the first call that answers false, or when no character   *)
(* is left.  The result is total_len after the scan.                       *)
RECURSIVE TrimScan(_, _, _, _)
TrimScan(value, total_len, ch, size) ==
    IF total_len = 0 THEN 0
    ELSE LET t == total_len - 1
             c == value[t + 1]
         IN  IF (c # ch) \/ (t > size) THEN TrimScan(value, t, ch, size)
             ELSE t

(* BuffSetTrim that stops at the last trim character wherever it is *)
BuffSetTrim_NoBudget(b, size, value, ch) ==
    LET total_len == TrimScan(value, Len(value), ch, Len(value))
    IN  IF SliceInRange(size, total_len)
           /\ SliceInRange(Len(value), total_len)
        THEN [len |-> total_len,
              buff |-> CopyFromSlice(b.buff, value, total_len)]
        ELSE PanicBuff

(* BuffSetTrim that cuts at the first trim character of the value *)
BuffSetTrim_FirstOccurrence(b, size, value, ch) ==
    LET at == {i \in 1..Len(value) : value[i] = ch}
        total_len == IF at = {} THEN 0
                     ELSE (CHOOSE i \in at : \A j \in at : i <= j) - 1
    IN  IF SliceInRange(size, total_len)
           /\ SliceInRange(Len(value), total_len)
        THEN [len |-> total_len,
              buff |-> CopyFromSlice(b.buff, value, total_len)]
        ELSE PanicBuff

(* set_trim *)
BuffSetTrim(b, size, value, ch) ==
    LET total_len == TrimScan(value, Len(value), ch, size)
    IN  IF SliceInRange(size, total_len)
           /\ SliceInRange(Len(value), total_len)
        THEN [len |-> total_len,
              buff |-> CopyFromSlice(b.buff, value, total_len)]
        ELSE PanicBuff

(* StringFrom that gives the whole array, stale bytes included *)
StringFrom_WholeArray(b) == b.buff

(* impl From<$type> for String; the bytes are ASCII, so from_utf8 succeeds *)
StringFrom(b) == SubSeq(b.buff, 1, b.len)

None == [some |-> FALSE, val |-> <<>>]

Some(v) == [some |-> TRUE, val |-> v]

to_opt(b) == IF b.len = 0 THEN None ELSE Some(StringFrom(b))

----------------------------------------------------------------------------
(* str::parse::<u64>, ::<usize>, ::<i32> *)

Err == [ok |-> FALSE, val |-> 0]

Ok(v) == [ok |-> TRUE, val |-> v]

AllDigits(s) == \A i \in 1..Len(s) : s[i] \in DigitChars

RECURSIVE StripZeros(_)
StripZeros(s) ==
    IF Len(s) > 1 /\ s[1] = "0" THEN StripZeros(Tail2(s)) ELSE s

(* a < b for canonical numerals *)
RECURSIVE LexLess(_, _)
LexLess(a, b) ==
    IF Len(a) = 0 THEN FALSE
    ELSE IF a[1] # b[1] THEN DigitVal(a[1]) < DigitVal(b[1])
    ELSE LexLess(Tail2(a), Tail2(b))

NumLess(a, b) ==
    \/ Len(a) < Len(b)
    \/ Len(a) = Len(b) /\ LexLess(a, b)

U64_MAX == <<"1","8","4","4","6","7","4","4","0","7",
             "3","7","0","9","5","5","1","6","1","5">>

ParseU64(token) ==
    LET digits == IF Len(token) > 0 /\ token[1] = "+" THEN Tail2(token)
                  ELSE token
    IN  IF Len(token) = 0 \/ Len(digits) = 0 THEN Err
        ELSE IF ~AllDigits(digits) THEN Err
        ELSE IF NumLess(U64_MAX, StripZeros(digits)) THEN Err
        ELSE Ok(StripZeros(digits))

ParseUsize(token) == ParseU64(token)

I32_MAX == 2147483647

I32_MIN == -I32_MAX - 1

(* checked_mul(10) then checked_add(d) / checked_sub(d), digit by digit *)
RECURSIVE AccI32(_, _, _)
AccI32(digits, acc, positive) ==
    IF Len(digits) = 0 THEN Ok(acc)
    ELSE LET d == DigitVal(digits[1])
         IN  IF positive
             THEN IF acc > (I32_MAX - d) \div 10 THEN Err
                  ELSE AccI32(Tail2(digits), acc * 10 + d, positive)
             ELSE IF acc < -(I32_MAX \div 10)
                     \/ (acc * 10 + I32_MAX) - d < -1 THEN Err
                  ELSE AccI32(Tail2(digits), acc * 10 - d, positive)

(* ParseI32 that clamps a value out of range to the nearest bound *)
ParseI32_Saturating(token) ==
    LET signed == Len(token) > 0 /\ token[1] \in {"+", "-"}
        digits == IF signed THEN Tail2(token) ELSE token
        positive == ~(token[1] = "-")
        r == AccI32(digits, 0, positive)
    IN  IF Len(token) = 0 \/ Len(digits) = 0 THEN Err
        ELSE IF ~AllDigits(digits) THEN Err
        ELSE IF r.ok THEN r
        ELSE Ok(IF positive THEN I32_MAX ELSE I32_MIN)

ParseI32(token) ==
    LET signed == Len(token) > 0 /\ token[1] \in {"+", "-"}
        digits == IF signed THEN Tail2(token) ELSE token
    IN  IF Len(token) = 0 \/ Len(digits) = 0 THEN Err
        ELSE IF ~AllDigits(digits) THEN Err
        ELSE AccI32(digits, 0, ~(token[1] = "-"))

----------------------------------------------------------------------------
(* Tokens the decoder compares against *)

t_info == <<"i","n","f","o">>

t_string == <<"s","t","r","i","n","g">>

t_multipv == <<"m","u","l","t","i","p","v">>

t_depth == <<"d","e","p","t","h">>

t_seldepth == <<"s","e","l","d","e","p","t","h">>

t_tbhits == <<"t","b","h","i","t","s">>

t_nodes == <<"n","o","d","e","s">>

t_time == <<"t","i","m","e">>

t_nps == <<"n","p","s">>

t_score == <<"s","c","o","r","e">>

t_pv == <<"p","v">>

t_cp == <<"c","p">>

t_mate == <<"m","a","t","e">>

----------------------------------------------------------------------------
(* Score, AnalysisInfo *)

Cp(v) == [kind |-> "Cp", val |-> v]

Mate(v) == [kind |-> "Mate", val |-> v]

Zero == <<"0">>

AnalysisInfoNew ==
    [bestmove |-> BuffNew(UCI_MAX_LENGTH),
     ponder   |-> BuffNew(UCI_MAX_LENGTH),
     pv       |-> BuffNew(PV_BUFF_SIZE),
     multipv  |-> Zero,
     depth    |-> Zero,
     seldepth |-> Zero,
     tbhits   |-> Zero,
     nodes    |-> Zero,
     time     |-> Zero,
     nps      |-> Zero,
     score    |-> Cp(0)]

bestmove(a) == to_opt(a.bestmove)

ponder(a) == to_opt(a.ponder)

pv(a) == to_opt(a.pv)

----------------------------------------------------------------------------
(* AnalysisInfo::parse *)

ParsingState ==
    {"Info", "Key", "Unknown", "Multipv", "Depth", "Seldepth", "Tbhits",
     "Nodes", "Time", "Nps", "Score", "ScoreCp", "ScoreMate",
     "PvBestmove", "PvPonder", "PvRest"}

(* the locals of parse at the head of the loop over the tokens *)
ParseEntry(a) ==
    [self |-> a, ps |-> "Info", pv_buff |-> <<>>, pv_on |-> FALSE,
     returned |-> FALSE, panicked |-> FALSE]

(* KeyState with the nps key taken for the nodes key *)
KeyState_NpsAsNodes(token) ==
    CASE token = t_multipv  -> "Multipv"
      [] token = t_depth    -> "Depth"
      [] token = t_seldepth -> "Seldepth"
      [] token = t_tbhits   -> "Tbhits"
      [] token = t_nodes    -> "Nodes"
      [] token = t_time     -> "Time"
      [] token = t_nps      -> "Nodes"
      [] token = t_score    -> "Score"
      [] token = t_pv       -> "PvBestmove"
      [] OTHER              -> "Unknown"

KeyState(token) ==
    CASE token = t_multipv  -> "Multipv"
      [] token = t_depth    -> "Depth"
      [] token = t_seldepth -> "Seldepth"
      [] token = t_tbhits   -> "Tbhits"
      [] token = t_nodes    -> "Nodes"
      [] token = t_time     -> "Time"
      [] token = t_nps      -> "Nps"
      [] token = t_score    -> "Score"
      [] token = t_pv       -> "PvBestmove"
      [] OTHER              -> "Unknown"

(* SetField that resets the field when the value does not parse *)
SetField_ZeroOnErr(st, field, r) ==
    [st EXCEPT !.self = [@ EXCEPT ![field] = IF r.ok THEN r.val ELSE Zero]]

(* a numeric value state: write the field on Ok, keep it otherwise *)
SetField(st, field, r) ==
    IF r.ok THEN [st EXCEPT !.self = [@ EXCEPT ![field] = r.val]] ELSE st

(* SetScore that stores every score as centipawns *)
SetScore_AlwaysCp(st, r, kind) ==
    IF r.ok THEN [st EXCEPT !.self = [@ EXCEPT !.score = Cp(r.val)]]
    ELSE st

SetScore(st, r, kind) ==
    IF r.ok THEN [st EXCEPT !.self = [@ EXCEPT !.score =
                                         [kind |-> kind, val |-> r.val]]]
    ELSE st

(* BackToKey that expects a key after every value, in a pv section too *)
BackToKey_Always(st) == [st EXCEPT !.ps = "Key"]

(* `if !pv_on { ps = ParsingState::Key }` after the inner match *)
BackToKey(st) == IF ~st.pv_on THEN [st EXCEPT !.ps = "Key"] ELSE st

StoreMove(st, field, token, next) ==
    LET b == BuffFrom(UCI_MAX_LENGTH, token)
    IN  IF b = PanicBuff THEN [st EXCEPT !.panicked = TRUE]
        ELSE [st EXCEPT !.self = [@ EXCEPT ![field] = b], !.ps = next]

(* InfoArm that goes on to the keys whatever the first token is *)
InfoArm_NoReturn(st, token) == [st EXCEPT !.ps = "Key"]

(* ParsingState::Info arm *)
InfoArm(st, token) ==
    IF token = t_info THEN [st EXCEPT !.ps = "Key"]
    ELSE [st EXCEPT !.returned = TRUE]

(* KeyArm without the test for `string` *)
KeyArm_NoString(st, token) == [st EXCEPT !.ps = KeyState(token)]

(* ParsingState::Key arm *)
KeyArm(st, token) ==
    IF token = t_string THEN [st EXCEPT !.returned = TRUE]
    ELSE [st EXCEPT !.ps = KeyState(token)]

(* ScoreArm that skips an invalid specifier and goes on with the keys *)
ScoreArm_NoReturn(st, token) ==
    IF token = t_cp THEN [st EXCEPT !.ps = "ScoreCp"]
    ELSE IF token = t_mate THEN [st EXCEPT !.ps = "ScoreMate"]
    ELSE [st EXCEPT !.ps = "Key"]

(* ParsingState::Score arm *)
ScoreArm(st, token) ==
    IF token = t_cp THEN [st EXCEPT !.ps = "ScoreCp"]
    ELSE IF token = t_mate THEN [st EXCEPT !.ps = "ScoreMate"]
    ELSE [st EXCEPT !.returned = TRUE]

(* UnknownArm that reads the token after an unknown key as a key *)
UnknownArm_AsKey(st, token) == KeyArm(st, token)

(* ParsingState::Unknown arm *)
UnknownArm(st, token) == [st EXCEPT !.ps = "Key"]

(* the inner match of the `_` arm, without the pv_on test after it *)
ValueArm(st, token) ==
    CASE st.ps = "Multipv"  -> SetField(st, "multipv", ParseUsize(token))
      [] st.ps = "Depth"    -> SetField(st, "depth", ParseUsize(token))
      [] st.ps = "Seldepth" -> SetField(st, "seldepth", ParseUsize(token))
      [] st.ps = "Tbhits"   -> SetField(st, "tbhits", ParseU64(token))
      [] st.ps = "Nodes"    -> SetField(st, "nodes", ParseU64(token))
      [] st.ps = "Nps"      -> SetField(st, "nps", ParseU64(token))
      [] st.ps = "Time"     -> SetField(st, "time", ParseUsize(token))
      [] st.ps = "ScoreCp"  -> SetScore(st, ParseI32(token), "Cp")
      [] st.ps = "ScoreMate" -> SetScore(st, ParseI32(token), "Mate")
      [] st.ps = "PvBestmove" ->
            StoreMove([st EXCEPT !.pv_buff = @ \o token, !.pv_on = TRUE],
                      "bestmove", token, "PvPonder")
      [] st.ps = "PvPonder" ->
            StoreMove([st EXCEPT !.pv_buff = @ \o <<SP>> \o token],
                      "ponder", token, "PvRest")
      [] st.ps = "PvRest" -> [st EXCEPT !.pv_buff = @ \o <<SP>> \o token]
      [] OTHER -> st

(* one iteration of `for token in info.split(" ")` *)
Step(st, token) ==
    CASE st.ps = "Info"    -> InfoArm(st, token)
      [] st.ps = "Key"     -> KeyArm(st, token)
      [] st.ps = "Score"   -> ScoreArm(st, token)
      [] st.ps = "Unknown" -> UnknownArm(st, token)
      [] OTHER             -> BackToKey(ValueArm(st, token))

(* the loop: stops at a `return` (or a panic) *)
RECURSIVE Loop(_, _)
Loop(st, tokens) ==
    IF Len(tokens) = 0 \/ st.returned \/ st.panicked THEN st
    ELSE Loop(Step(st, tokens[1]), Tail2(tokens))

(* StorePv that stores only when a pv section was read *)
StorePv_OnlyAfterPv(st) ==
    IF st.returned \/ st.panicked \/ ~st.pv_on THEN st
    ELSE [st EXCEPT !.self = [@ EXCEPT !.pv =
                                 BuffFrom(PV_BUFF_SIZE, st.pv_buff)]]

(* StorePv that also stores when the line was rejected *)
StorePv_AlsoOnReturn(st) ==
    IF st.panicked THEN st
    ELSE [st EXCEPT !.self = [@ EXCEPT !.pv =
                                 BuffFrom(PV_BUFF_SIZE, st.pv_buff)]]

(* StorePv that appends to the pv already stored *)
StorePv_Appending(st) ==
    IF st.returned \/ st.panicked THEN st
    ELSE [st EXCEPT !.self = [@ EXCEPT !.pv =
              BuffFrom(PV_BUFF_SIZE, StringFrom(@) \o st.pv_buff)]]

(* `self.pv = PvBuff::from(pv_buff)` once the tokens are exhausted *)
StorePv(st) ==
    LET b == BuffFrom(PV_BUFF_SIZE, st.pv_buff)
    IN  IF st.returned \/ st.panicked THEN st
        ELSE IF b = PanicBuff THEN [st EXCEPT !.panicked = TRUE]
        ELSE [st EXCEPT !.self = [@ EXCEPT !.pv = b]]

ParseRun(a, line) == StorePv(Loop(ParseEntry(a), Split(line)))

----------------------------------------------------------------------------
(* The lines given to parse *)

t_empty == <<>>

t_bestmove == <<"b","e","s","t","m","o","v","e">>

t_hashfull == <<"h","a","s","h","f","u","l","l">>

t_notanumber == <<"n","o","t","a","n","u","m","b","e","r">>

t_lowerbound == <<"l","o","w","e","r","b","o","u","n","d">>

t_1 == <<"1">>

t_2 == <<"2">>

t_3 == <<"3">>

t_5 == <<"5">>

t_7 == <<"7">>

t_12 == <<"1","2">>

t_18 == <<"1","8">>

t_20 == <<"2","0">>

t_34 == <<"3","4">>

t_500 == <<"5","0","0">>

t_800 == <<"8","0","0">>

t_2000 == <<"2","0","0","0">>

t_50000 == <<"5","0","0","0","0">>

t_100000 == <<"1","0","0","0","0","0">>

t_plus5 == <<"+","5">>

t_007 == <<"0","0","7">>

t_minus5 == <<"-","5">>

t_minus20 == <<"-","2","0">>

t_i32max == <<"2","1","4","7","4","8","3","6","4","7">>

t_i32over == <<"2","1","4","7","4","8","3","6","4","8">>

t_i32min == <<"-","2","1","4","7","4","8","3","6","4","8">>

t_i32under == <<"-","2","1","4","7","4","8","3","6","4","9">>

t_u64max == U64_MAX

t_u64over == <<"1","8","4","4","6","7","4","4","0","7",
               "3","7","0","9","5","5","1","6","1","6">>

t_e2e4 == <<"e","2","e","4">>

t_e7e5 == <<"e","7","e","5">>

t_g1f3 == <<"g","1","f","3">>

t_e7e8q == <<"e","7","e","8","q">>

t_d7d8 == <<"d","7","d","8">>

t_c2c4 == <<"c","2","c","4">>

t_a7a8Q == <<"a","7","a","8","=","Q">>

t_OO == <<"O","-","O">>

RECURSIVE Join(_)
Join(ts) ==
    IF Len(ts) = 0 THEN <<>>
    ELSE IF Len(ts) = 1 THEN ts[1]
    ELSE ts[1] \o <<SP>> \o Join(Tail2(ts))

RECURSIVE Concat(_)
Concat(ss) == IF Len(ss) = 0 THEN <<>> ELSE ss[1] \o Concat(Tail2(ss))

UnsignedKeys ==
    {t_multipv, t_depth, t_seldepth, t_tbhits, t_nodes, t_time, t_nps}

(* the pieces a line body is assembled from; each is a run of tokens *)
Items ==
    {<<t_multipv, t_1>>, <<t_depth, t_12>>, <<t_seldepth, t_18>>,
     <<t_tbhits, t_7>>, <<t_nodes, t_100000>>, <<t_time, t_2000>>,
     <<t_nps, t_50000>>, <<t_depth, t_5>>, <<t_nodes, t_500>>,
     <<t_time, t_plus5>>, <<t_depth, t_007>>,
     <<t_nodes, t_u64max>>, <<t_nodes, t_u64over>>}
    \cup {<<k, t_notanumber>> : k \in UnsignedKeys}
    \cup {<<k, t_minus5>> : k \in UnsignedKeys}
    \cup {<<t_score, t_cp, t_34>>, <<t_score, t_mate, t_3>>,
          <<t_score, t_cp, t_minus20>>, <<t_score, t_mate, t_i32min>>,
          <<t_score, t_cp, t_i32max>>, <<t_score, t_cp, t_i32over>>,
          <<t_score, t_mate, t_i32under>>,
          <<t_score, t_cp, t_notanumber>>, <<t_score, t_mate, t_notanumber>>,
          <<t_score, t_lowerbound>>, <<t_score>>, <<t_score, t_cp>>,
          <<t_string>>, <<t_hashfull, t_800>>, <<t_hashfull>>,
          <<t_depth>>, <<t_empty>>}

(* how a line may end: nothing more, or a pv section *)
Tails ==
    {<<>>, <<t_pv>>, <<t_pv, t_g1f3>>, <<t_pv, t_e2e4, t_e7e5>>,
     <<t_pv, t_e7e8q, t_d7d8>>, <<t_pv, t_a7a8Q, t_OO>>,
     <<t_pv, t_e2e4, t_e7e5, t_g1f3>>, <<t_pv, t_e2e4, t_multipv, t_2>>,
     <<t_pv, t_string, t_score, t_depth>>}

(* what a line may begin with instead of `info` *)
OtherHeads == {<<>>, <<t_empty, t_info>>, <<t_bestmove, t_e2e4>>}

MaxItems == 2

ItemSeqs(n) == UNION {[1..m -> Items] : m \in 0..n}

(* a line that begins with `info` *)
InfoLine(is, t) == Join(<<t_info>> \o Concat(is) \o t)

(* a line that begins with something else *)
OtherLine(h, is, t) == Join(h \o Concat(is) \o t)

(* lines of the documented shape, as an engine emits them *)
EngineLines ==
    {Join(<<t_info, t_depth, t_12, t_seldepth, t_18, t_multipv, t_1,
            t_score, t_cp, t_34, t_nodes, t_100000, t_nps, t_50000,
            t_time, t_2000, t_pv, t_e2e4, t_e7e5>>),
     Join(<<t_info, t_depth, t_20, t_score, t_mate, t_3, t_pv, t_g1f3>>),
     Join(<<t_info, t_multipv, t_2, t_tbhits, t_7, t_score, t_cp, t_minus20,
            t_pv, t_e7e8q, t_d7d8, t_c2c4>>)}

----------------------------------------------------------------------------
(* The caller: one record, parse called on it line after line *)

MaxCalls == 2

NoLine == <<"-">>

Outcome(st) ==
    IF st.panicked THEN "panic" ELSE IF st.returned THEN "return" ELSE "end"

(* no parse call made yet on a record from AnalysisInfo::new() *)
ParseIdle ==
    /\ self = AnalysisInfoNew
    /\ info = NoLine
    /\ old = AnalysisInfoNew
    /\ outcome = "none"
    /\ calls = 0
    /\ again = FALSE

(* a buffer from $type::new(), nothing done to it yet *)
BuffIdle ==
    /\ buf = BuffNew(cap)
    /\ op = "new"
    /\ arg = <<>>
    /\ trim = NUL
    /\ ops = 0

Init == ParseIdle /\ cap = UCI_MAX_LENGTH /\ BuffIdle

(* self.parse(l) *)
Parse(l) ==
    LET st == ParseRun(self, l)
    IN  /\ self' = st.self
        /\ info' = l
        /\ old' = self
        /\ outcome' = Outcome(st)
        /\ calls' = calls + 1
        /\ again' = (calls > 0 /\ l = info)
        /\ UNCHANGED bvars

(* the session goes on while the engine sends lines of the documented shape *)
Continues == calls = 0 \/ (info \in EngineLines /\ calls < MaxCalls)

ParseInfoLine ==
    \E is \in ItemSeqs(MaxItems), t \in Tails : Parse(InfoLine(is, t))

ParseOtherLine ==
    \E h \in OtherHeads, is \in ItemSeqs(MaxItems - 1), t \in Tails :
        Parse(OtherLine(h, is, t))

ParseEngineLine == \E l \in EngineLines : Parse(l)

(* the line just parsed is given to parse once more *)
ParseAgain == calls > 0 /\ ~again /\ Parse(info)

Next ==
    \/ Continues /\ (ParseInfoLine \/ ParseOtherLine \/ ParseEngineLine)
    \/ ParseAgain

Spec == Init /\ [][Next]_vars

----------------------------------------------------------------------------
(* The user of a buffer: operations applied to it one after the other *)

t_space == <<SP>>

(* the pieces the texts given to a buffer are assembled from *)
Pieces == {t_e2e4, t_e7e8q, t_OO, t_space}

MaxPieces == 4

(* the texts: every concatenation of at most MaxPieces pieces *)
Values == {Concat(ps) : ps \in UNION {[1..m -> Pieces] : m \in 0..MaxPieces}}

TrimChars == {SP, "e"}

MaxOps == 2

(* the buffer is used again after it held one of these *)
HeldBefore == {<<>>, t_e7e8q, t_e7e8q \o t_space \o t_e2e4 \o t_space}

BuffInit ==
    /\ ParseIdle
    /\ cap \in {UCI_MAX_LENGTH, PV_BUFF_SIZE}
    /\ BuffIdle

(* the outcome of an operation with the text v (and trim character ch) *)
Applied(name, b, v, ch) ==
    /\ buf' = b
    /\ op' = name
    /\ arg' = v
    /\ trim' = ch
    /\ ops' = ops + 1
    /\ UNCHANGED <<cap, pvars>>

(* buf = $type::new() *)
New == Applied("new", BuffNew(cap), <<>>, NUL)

(* buf.set(v) *)
Set == \E v \in Values : Applied("set", BuffSet(buf, cap, v), v, NUL)

(* buf.set_trim(v, ch) *)
SetTrim ==
    \E v \in Values, ch \in TrimChars :
        Applied("set_trim", BuffSetTrim(buf, cap, v, ch), v, ch)

(* buf = $type::from(v) with v a &str *)
From == \E v \in Values : Applied("from", BuffFrom(cap, v), v, NUL)

(* buf = $type::from(v) with v a String *)
FromString ==
    \E v \in Values :
        Applied("from_string", BuffFromString(cap, v), v, NUL)

BuffContinues == ops = 0 \/ (ops < MaxOps /\ arg \in HeldBefore)

BuffNext == BuffContinues /\ (New \/ Set \/ SetTrim \/ From \/ FromString)

BuffSpec == BuffInit /\ [][BuffNext]_vars

----------------------------------------------------------------------------
(* What a line says, read off its tokens without running the decoder *)

Called == calls > 0

Max(S) == CHOOSE x \in S : \A y \in S : y <= x

(* the texts that are unsigned 64-bit numbers, each with its value *)
U64Table ==
    {<<t, t>> : t \in {t_1, t_2, t_3, t_5, t_7, t_12, t_18, t_20, t_34,
                       t_500, t_800, t_2000, t_50000, t_100000,
                       t_i32max, t_i32over, t_u64max}}
    \cup {<<t_plus5, t_5>>, <<t_007, t_7>>}

IsU64(v) == \E p \in U64Table : p[1] = v

U64Of(v) == (CHOOSE p \in U64Table : p[1] = v)[2]

(* the texts that are signed 32-bit numbers, each with its value *)
I32Table ==
    {<<t_1, 1>>, <<t_2, 2>>, <<t_3, 3>>, <<t_5, 5>>, <<t_7, 7>>,
     <<t_12, 12>>, <<t_18, 18>>, <<t_20, 20>>, <<t_34, 34>>,
     <<t_500, 500>>, <<t_800, 800>>, <<t_2000, 2000>>,
     <<t_50000, 50000>>, <<t_100000, 100000>>, <<t_plus5, 5>>,
     <<t_007, 7>>, <<t_minus5, -5>>, <<t_minus20, -20>>,
     <<t_i32max, 2147483647>>, <<t_i32min, -2147483647 - 1>>}

IsI32(v) == \E p \in I32Table : p[1] = v

I32Of(v) == (CHOOSE p \in I32Table : p[1] = v)[2]

FieldOf(k) ==
    CASE k = t_multipv  -> "multipv"
      [] k = t_depth    -> "depth"
      [] k = t_seldepth -> "seldepth"
      [] k = t_tbhits   -> "tbhits"
      [] k = t_nodes    -> "nodes"
      [] k = t_time     -> "time"
      [] k = t_nps      -> "nps"

(* The key/value pairs of the tokens from key position i on, up to the     *)
(* point where the line ends, a pv section begins (pvAt) or the line is    *)
(* rejected (abort, why).  complete: every key had its value.              *)
RECURSIVE Read(_, _)
Read(ts, i) ==
    LET n == Len(ts)
        stop(ab, why, comp, at) ==
            [abort |-> ab, why |-> why, complete |-> comp, pvAt |-> at,
             pairs |-> <<>>]
        more(width, kind) ==
            LET r == Read(ts, i + width)
            IN  [r EXCEPT !.pairs = <<[key |-> ts[i], kind |-> kind,
                                       val |-> ts[i + width - 1]]>> \o @]
    IN  IF i > n THEN stop(FALSE, "none", TRUE, 0)
        ELSE IF ts[i] = t_pv THEN stop(FALSE, "none", TRUE, i)
        ELSE IF ts[i] = t_string THEN stop(TRUE, "string", FALSE, 0)
        ELSE IF ts[i] = t_score
             THEN IF i + 1 > n THEN stop(FALSE, "none", FALSE, 0)
                  ELSE IF ts[i + 1] \notin {t_cp, t_mate}
                       THEN stop(TRUE, "score", FALSE, 0)
                  ELSE IF i + 2 > n THEN stop(FALSE, "none", FALSE, 0)
                  ELSE more(3, ts[i + 1])
        ELSE IF i + 1 > n THEN stop(FALSE, "none", FALSE, 0)
        ELSE more(2, <<>>)

(* What the line `info` says: its tokens (toks) and, for the tokens after   *)
(* the first, the reading above.                                           *)
Heard ==
    LET ts == Split(info)
        r == Read(ts, 2)
    IN  [toks |-> ts, abort |-> r.abort, why |-> r.why,
         complete |-> r.complete, pvAt |-> r.pvAt, pairs |-> r.pairs,
         pvToks |-> IF r.pvAt = 0 THEN <<>>
                    ELSE SubSeq(ts, r.pvAt + 1, Len(ts))]

IsInfoLine(h) == Called /\ h.toks[1] = t_info

(* the text of the tokens after the pv key *)
PvText(h) == Join(h.pvToks)

IsMove(t) == Len(t) >= 1 /\ Len(t) <= 5

Prefix(s, n) == SubSeq(s, 1, IF Len(s) < n THEN Len(s) ELSE n)

GoodUnsigned(p) == p.key \in UnsignedKeys /\ IsU64(p.val)

BadUnsigned(p) == p.key \in UnsignedKeys /\ ~IsU64(p.val)

GoodScore(p) == p.key = t_score /\ IsI32(p.val)

BadScore(p) == p.key = t_score /\ ~IsI32(p.val)

UnknownPair(p) == p.key \notin UnsignedKeys \cup {t_score}

(* the value the line gives field k: that of the last well-formed pair    *)
(* for k, and the value before the call when there is none                *)
ExpectUnsigned(h, k) ==
    LET at == {j \in 1..Len(h.pairs) :
                  h.pairs[j].key = k /\ GoodUnsigned(h.pairs[j])}
    IN  IF at = {} THEN old[FieldOf(k)] ELSE U64Of(h.pairs[Max(at)].val)

ExpectScore(h) ==
    LET at == {j \in 1..Len(h.pairs) : GoodScore(h.pairs[j])}
        p == h.pairs[Max(at)]
    IN  IF at = {} THEN old.score
        ELSE IF p.kind = t_cp THEN Cp(I32Of(p.val)) ELSE Mate(I32Of(p.val))

NumbersAsSaid(h) ==
    /\ \A k \in UnsignedKeys : self[FieldOf(k)] = ExpectUnsigned(h, k)
    /\ self.score = ExpectScore(h)

(* info, then key/value pairs each with its value, then nothing or pv ... *)
PairLine(h) == IsInfoLine(h) /\ h.complete /\ ~h.abort

Some2(h, P(_)) == \E j \in 1..Len(h.pairs) : P(h.pairs[j])

All2(h, P(_)) == \A j \in 1..Len(h.pairs) : P(h.pairs[j])

----------------------------------------------------------------------------
(* Claims *)

C1_Pair(p) == GoodUnsigned(p) \/ (GoodScore(p) /\ p.kind = t_cp)

(* info, recognised pairs with in-range values, then `pv m1 m2` with the   *)
(* text `m1 m2` at most 10 bytes, given to a fresh record                  *)
C1_Line(h) ==
    /\ PairLine(h)
    /\ old = AnalysisInfoNew
    /\ All2(h, C1_Pair)
    /\ Len(h.pvToks) = 2
    /\ Len(PvText(h)) <= 10

C1_Decoded(h) ==
    /\ NumbersAsSaid(h)
    /\ StringFrom(self.bestmove) = h.pvToks[1]
    /\ StringFrom(self.ponder) = h.pvToks[2]
    /\ StringFrom(self.pv) = h.pvToks[1] \o <<SP>> \o h.pvToks[2]

(* C1 as stated: from a fresh record, a line `info`, recognised key/value  *)
(* pairs in any order with in-range values (score as `score cp v`), then   *)
(* `pv m1 m2` whose text `m1 m2` is at most 10 bytes, leaves every numeric *)
(* field at the value given on the line, score = Cp(v), bestmove = m1,     *)
(* ponder = m2 and pv = "m1 m2".                                           *)
C1_AsClaimed ==
    LET h == Heard
    IN  C1_Line(h) => C1_Decoded(h)

(* C1, amended: the same, for m1 and m2 of at most 5 bytes each.           *)
C1_FullLineDecodes ==
    LET h == Heard
    IN  (C1_Line(h) /\ Len(h.pvToks[1]) <= 5 /\ Len(h.pvToks[2]) <= 5) =>
            (C1_Decoded(h) /\ outcome = "end")

C1_Witness ==
    /\ Called
    /\ self.depth = t_12 /\ self.seldepth = t_18 /\ self.multipv = t_1
    /\ self.nodes = t_100000 /\ self.nps = t_50000 /\ self.time = t_2000
    /\ self.score = Cp(34)
    /\ bestmove(self) = Some(t_e2e4) /\ ponder(self) = Some(t_e7e5)
    /\ LET h == Heard
       IN  /\ C1_Line(h)
           /\ Len(h.pairs) = 7
           /\ h.pvToks = <<t_e2e4, t_e7e5>>

(* C2: a line whose first token is not `info` (the empty line and a line   *)
(* with a leading space included) leaves every field of the record as it   *)
(* was before the call.                                                    *)
C2_NotInfoUnchanged == (Called /\ Split(info)[1] # t_info) => self = old

C2_Witness ==
    /\ Called
    /\ old # AnalysisInfoNew
    /\ self = old
    /\ outcome = "return"
    /\ LET ts == Split(info)
       IN  ts[1] = t_empty /\ Len(ts) > 3 /\ ts[2] = t_info

InfoString(ts) == Len(ts) >= 2 /\ ts[1] = t_info /\ ts[2] = t_string

(* C3: a line whose first two tokens are `info` and `string` leaves every  *)
(* field of the record, pv included, as it was, whatever follows.          *)
C3_InfoStringUnchanged == (Called /\ InfoString(Split(info))) => self = old

C3_Witness ==
    /\ Called
    /\ old # AnalysisInfoNew /\ old.pv.len > 0
    /\ self = old
    /\ LET ts == Split(info)
       IN  /\ InfoString(ts)
           /\ \E i \in 3..Len(ts) : ts[i] = t_pv

C4_Pair(p) == BadUnsigned(p) \/ BadScore(p)

C4_Line(h) == PairLine(h) /\ Some2(h, C4_Pair)

(* C4: when the value after a numeric key (or after score cp / score mate) *)
(* is not a number, the field keeps its prior value, parse does not abort  *)
(* and every later well-formed pair of the line is still applied.          *)
C4_BadValueSkipped ==
    LET h == Heard
    IN  C4_Line(h) => (outcome = "end" /\ NumbersAsSaid(h))

C4_Witness ==
    /\ Called
    /\ old.depth = t_12 /\ self.depth = t_12
    /\ old.nodes # t_500 /\ self.nodes = t_500
    /\ LET h == Heard
       IN  /\ C4_Line(h)
           /\ Len(h.pairs) = 2
           /\ h.pairs[1].key = t_depth /\ BadUnsigned(h.pairs[1])
           /\ h.pairs[2].key = t_nodes /\ GoodUnsigned(h.pairs[2])

C5_Line(h) == PairLine(h) /\ Some2(h, UnknownPair)

(* C5: an unrecognised key takes exactly one following token as its value: *)
(* on a line where every unknown key has one value, the unknown pair       *)
(* changes no field and the recognised pairs before and after it are       *)
(* applied.                                                                *)
C5_UnknownPairSkipped ==
    LET h == Heard
    IN  C5_Line(h) => NumbersAsSaid(h)

C5_Witness ==
    /\ Called
    /\ old.depth = t_12 /\ self.depth = t_5
    /\ LET h == Heard
       IN  /\ C5_Line(h)
           /\ Len(h.pairs) = 2
           /\ h.pairs[1].key = t_hashfull /\ h.pairs[1].val = t_800
           /\ h.pairs[2].key = t_depth /\ h.pairs[2].val = t_5

C6_Line(h) ==
    /\ PairLine(h)
    /\ old = AnalysisInfoNew
    /\ Len(h.pairs) >= 1
    /\ GoodScore(h.pairs[Len(h.pairs)])
    /\ h.pairs[Len(h.pairs)].kind = t_mate
    /\ Len(h.pvToks) = 1
    /\ IsMove(h.pvToks[1])

(* C6: from a fresh record, a line `info ... score mate x pv m` whose pv   *)
(* section is the single move m (at most 5 bytes), the last token, gives   *)
(* score = Mate(x), bestmove = m, no ponder and pv = m, without failing.   *)
C6_MateSingleMove ==
    LET h == Heard
    IN  C6_Line(h) =>
            /\ self.score = Mate(I32Of(h.pairs[Len(h.pairs)].val))
            /\ bestmove(self) = Some(h.pvToks[1])
            /\ ponder(self) = None
            /\ pv(self) = Some(h.pvToks[1])
            /\ outcome = "end"

C6_Witness ==
    /\ Called
    /\ self.score = Mate(3)
    /\ self.depth = t_20
    /\ bestmove(self) = Some(t_g1f3)
    /\ ponder(self) = None
    /\ C6_Line(Heard)

HasToken(ts, t) == \E i \in 1..Len(ts) : ts[i] = t

(* C7: on an `info` line every field with no corresponding token keeps its *)
(* value: without a `pv` token bestmove, ponder and pv are as before,      *)
(* without a `score` token score is as before, and a numeric field whose   *)
(* key is not on the line is as before.                                    *)
C7_AbsentKeysKeepFields ==
    LET ts == Split(info)
    IN  (Called /\ ts[1] = t_info) =>
            /\ ~HasToken(ts, t_pv) =>
                   /\ self.bestmove = old.bestmove
                   /\ self.ponder = old.ponder
                   /\ self.pv = old.pv
            /\ ~HasToken(ts, t_score) => self.score = old.score
            /\ \A k \in UnsignedKeys :
                   ~HasToken(ts, k) => self[FieldOf(k)] = old[FieldOf(k)]

(* C8: when parse reaches the end of the line without rejecting it, pv is  *)
(* the first min(10, L) bytes of the text gathered after the pv key (of L  *)
(* bytes), in whichever state the line ended; no text is an absent pv.     *)
C8_PvStoredAtEnd ==
    LET h == Heard
        text == PvText(h)
    IN  (IsInfoLine(h) /\ ~h.abort) =>
            /\ outcome = "end"
            /\ self.pv.len = (IF Len(text) < 10 THEN Len(text) ELSE 10)
            /\ StringFrom(self.pv) = Prefix(text, 10)
            /\ pv(self) = (IF Len(text) = 0 THEN None
                           ELSE Some(Prefix(text, 10)))

C8_Witness ==
    /\ Called
    /\ self.pv.len = 10
    /\ old.pv # self.pv
    /\ LET h == Heard
       IN  /\ IsInfoLine(h) /\ ~h.abort
           /\ Len(PvText(h)) > 10
           /\ StringFrom(self.pv) # PvText(h)

Numeral(v) ==
    /\ Len(v) >= 1
    /\ \A i \in 1..Len(v) : v[i] \in DigitChars
    /\ (Len(v) > 1 => v[1] # "0")
    /\ ~NumLess(U64_MAX, v)

BuffOK(b, size) ==
    /\ b.len \in 0..size
    /\ Len(b.buff) = size

RecordOK(a) ==
    /\ BuffOK(a.bestmove, 5) /\ BuffOK(a.ponder, 5) /\ BuffOK(a.pv, 10)
    /\ \A k \in UnsignedKeys : Numeral(a[FieldOf(k)])
    /\ a.score.kind \in {"Cp", "Mate"}
    /\ a.score.val >= -2147483647 - 1 /\ a.score.val <= 2147483647

(* every state of the machine, met with any token of the line, steps to a  *)
(* state of the machine *)
StepTotal(ts) ==
    \A ps \in ParsingState : \A t \in {ts[i] : i \in 1..Len(ts)} :
        LET at == [ParseEntry(old) EXCEPT
                       !.ps = ps, !.pv_on = ps \in {"PvPonder", "PvRest"}]
            to == Step(at, t)
        IN  to.ps \in ParsingState /\ ~to.panicked

(* C9: parse ends normally on every line: it returns or reaches the end of *)
(* the tokens, never panics, leaves a well-formed record, and every        *)
(* (state, token) pair has a successor state.                              *)
C9_NeverFails ==
    Called =>
        /\ outcome \in {"end", "return"}
        /\ RecordOK(self)
        /\ StepTotal(Split(info))

C9_Witness ==
    /\ Called
    /\ outcome = "end"
    /\ old.pv.len > 0 /\ self.pv.len = 0
    /\ Split(info) = <<t_info, t_empty, t_pv>>

(* C10: a line with `string` in key position, also after other pairs, is   *)
(* rejected with no field of the record changed.                           *)
C10_StringRejectsWhole ==
    LET h == Heard
    IN  (IsInfoLine(h) /\ h.abort /\ h.why = "string") => self = old

(* C11: after any sequence of parse calls the stored pv begins with the     *)
(* stored bestmove, followed by a space and the stored ponder when ponder  *)
(* is present, the whole cut to the 10 bytes of the pv buffer: bestmove,   *)
(* ponder and pv describe the same principal variation.                    *)
C11_PvDescribesMoves ==
    LET b == StringFrom(self.bestmove)
        p == StringFrom(self.ponder)
        head == IF self.ponder.len = 0 THEN b ELSE b \o <<SP>> \o p
        text == StringFrom(self.pv)
    IN  Prefix(text, Len(head)) = Prefix(head, 10)

(* the line reaches the pv key in key position *)
C15_Line(h) == IsInfoLine(h) /\ ~h.abort /\ h.pvAt > 0

(* C15: once pv has been read in key position no later token of the line   *)
(* is taken for a key: the numeric fields and score are those given by the *)
(* pairs before pv, parse does not abort, the first token after pv is      *)
(* stored in bestmove and the second in ponder (each in its 5 byte         *)
(* buffer), and all of them, space-separated, make the pv text (stored in  *)
(* its 10 byte buffer).                                                    *)
C15_NoKeysAfterPv ==
    LET h == Heard
        n == Len(h.pvToks)
    IN  C15_Line(h) =>
            /\ outcome = "end"
            /\ NumbersAsSaid(h)
            /\ self.bestmove = (IF n >= 1
                                THEN BuffFrom(UCI_MAX_LENGTH, h.pvToks[1])
                                ELSE old.bestmove)
            /\ (n >= 1 => StringFrom(self.bestmove) = Prefix(h.pvToks[1], 5))
            /\ self.ponder = (IF n >= 2
                              THEN BuffFrom(UCI_MAX_LENGTH, h.pvToks[2])
                              ELSE old.ponder)
            /\ (n >= 2 => StringFrom(self.ponder) = Prefix(h.pvToks[2], 5))
            /\ StringFrom(self.pv) = Prefix(PvText(h), 10)

C15_Witness ==
    /\ Called
    /\ outcome = "end"
    /\ old.multipv = t_1 /\ self.multipv = t_1
    /\ StringFrom(self.bestmove) = t_e2e4
    /\ StringFrom(self.ponder) = <<"m","u","l","t","i">>
    /\ StringFrom(self.pv) = t_e2e4 \o <<SP>> \o <<"m","u","l","t","i">>
    /\ LET h == Heard
       IN  C15_Line(h) /\ h.pvToks = <<t_e2e4, t_multipv, t_2>>

MovesKept ==
    /\ self.bestmove = old.bestmove
    /\ self.ponder = old.ponder
    /\ self.pv = old.pv

(* the token after a score key in key position is neither cp nor mate *)
C16_Line(h) == IsInfoLine(h) /\ h.abort /\ h.why = "score"

(* C16: when the token after the key `score` is neither `cp` nor `mate`,   *)
(* parse returns there: score is what it was when that token was met (the  *)
(* value before the call unless an earlier pair of the line set it), the   *)
(* fields written by the earlier pairs keep their new values, and no later *)
(* token has any effect (a pv section after it changes no move field).     *)
C16_BadSpecifierStops ==
    LET h == Heard
    IN  C16_Line(h) =>
            /\ outcome = "return"
            /\ NumbersAsSaid(h)
            /\ (~Some2(h, GoodScore) => self.score = old.score)
            /\ MovesKept

C16_Witness ==
    /\ Called
    /\ outcome = "return"
    /\ old.depth = t_12 /\ self.depth = t_5
    /\ old.score = Cp(34) /\ self.score = Cp(34)
    /\ old.pv.len > 0 /\ self.pv = old.pv
    /\ LET h == Heard
       IN  /\ C16_Line(h)
           /\ Len(h.pairs) = 1 /\ h.pairs[1].key = t_depth
           /\ h.toks[4] = t_score /\ h.toks[5] = t_lowerbound
           /\ HasToken(h.toks, t_pv)

(* number texts outside the range of the field they are given to *)
C17_OutOfRange(p) ==
    \/ p.key = t_score /\ p.val \in {t_i32over, t_i32under, t_u64max, t_u64over}
    \/ p.key \in UnsignedKeys /\ p.val \in {t_minus5, t_minus20, t_u64over}

(* number texts at the ends of the range of the field they are given to *)
C17_AtBound(p) ==
    \/ p.key = t_score /\ p.val \in {t_i32max, t_i32min}
    \/ p.key \in UnsignedKeys /\ p.val = t_u64max

C17_Pair(p) == C17_OutOfRange(p) \/ C17_AtBound(p)

C17_Line(h) == PairLine(h) /\ Some2(h, C17_Pair)

(* C17: a score value outside [-2^31, 2^31 - 1] and a negative (or too     *)
(* large) value of an unsigned field leave the field at its prior value,   *)
(* nothing wraps or clamps, parse goes on with the next token, and a value *)
(* in range, the bounds of the range included, is stored exactly.          *)
C17_OnlyInRangeStored ==
    LET h == Heard
    IN  C17_Line(h) =>
            /\ outcome = "end"
            /\ NumbersAsSaid(h)
            /\ \A j \in 1..Len(h.pairs) :
                   LET p == h.pairs[j]
                       last == \A i \in (j + 1)..Len(h.pairs) :
                                   h.pairs[i].key # p.key
                   IN  /\ (C17_OutOfRange(p) /\ j = 1 /\ last) =>
                              IF p.key = t_score THEN self.score = old.score
                              ELSE self[FieldOf(p.key)] = old[FieldOf(p.key)]
                       /\ (C17_AtBound(p) /\ last) =>
                              IF p.key = t_score
                              THEN self.score.val =
                                       (IF p.val = t_i32max THEN 2147483647
                                        ELSE -2147483647 - 1)
                              ELSE self[FieldOf(p.key)] = p.val

C17_Witness ==
    /\ Called
    /\ outcome = "end"
    /\ old.nodes = t_100000 /\ self.nodes = t_100000
    /\ old.score = Cp(34) /\ self.score = Cp(34)
    /\ bestmove(self) = Some(t_g1f3)
    /\ LET h == Heard
       IN  /\ C17_Line(h)
           /\ Len(h.pairs) = 2
           /\ h.pairs[1].key = t_nodes /\ h.pairs[1].val = t_minus5
           /\ h.pairs[2].key = t_score /\ h.pairs[2].val = t_i32over
           /\ h.pvToks = <<t_g1f3>>

(* the line is rejected: not an info line, `string` in key position, or an *)
(* invalid score specifier *)
C18_Rejected(h) == Called /\ (h.toks[1] # t_info \/ h.abort)

(* C18: a rejected line leaves bestmove, ponder and pv exactly as they     *)
(* were before the call: parse returns before a pv key is read and before  *)
(* the pv store at the end of the line; and parse returns early on         *)
(* rejected lines only.                                                    *)
C18_RejectionKeepsMoves ==
    LET h == Heard
    IN  /\ C18_Rejected(h) => (outcome = "return" /\ MovesKept)
        /\ (Called /\ outcome = "return") =>
               (C18_Rejected(h) /\ (h.toks[1] = t_info => h.pvAt = 0))

C18_Witness ==
    /\ Called
    /\ outcome = "return"
    /\ old.pv.len > 0 /\ old.bestmove.len > 0 /\ old.ponder.len > 0
    /\ MovesKept
    /\ self # old
    /\ LET h == Heard
       IN  /\ C18_Rejected(h)
           /\ h.why = "string"
           /\ HasToken(h.toks, t_pv)

(* C19: parsing a line twice in succession into a record gives the same   *)
(* record, all eleven fields, as parsing it once: the second of two calls  *)
(* with the same line changes nothing.                                     *)
C19_ParseTwiceSame == again => self = old

C19_Witness ==
    /\ again
    /\ calls = 2
    /\ self = old
    /\ self # AnalysisInfoNew
    /\ self.pv.len = 10
    /\ outcome = "end"
    /\ LET h == Heard
       IN  /\ PairLine(h)
           /\ Len(h.pairs) = 2
           /\ h.pvToks = <<t_e2e4, t_e7e5, t_g1f3>>

----------------------------------------------------------------------------
(* Claims on the buffers *)

(* the bytes at positions [0, len) of the array *)
Stored(b) == SubSeq(b.buff, 1, b.len)

Assigned == ops > 0 /\ op # "new"

(* C12: for both capacities (5 and 10) and every text s of at most that    *)
(* many bytes, the buffer built from s by From<&str>, From<String> or set, *)
(* converted back to a String, is exactly s.                               *)
C12_RoundTrip ==
    (ops > 0 /\ op \in {"from", "from_string", "set"} /\ Len(arg) <= cap) =>
        /\ buf # PanicBuff
        /\ StringFrom(buf) = arg

C12_Witness ==
    /\ ops = 2
    /\ op = "set"
    /\ cap = PV_BUFF_SIZE
    /\ arg = t_e2e4 \o t_space \o t_OO
    /\ StringFrom(buf) = arg
    /\ buf.buff[9] = "e" /\ buf.buff[10] = "4"

(* C13: for every text s of at least N bytes, set(s) and from(s) store     *)
(* exactly the first N bytes of s with len = N and do not fail; and for    *)
(* every buffer, to_opt is None if and only if len = 0, and otherwise Some *)
(* of exactly the stored len bytes.                                        *)
C13_TruncatesToCapacity ==
    /\ (ops > 0 /\ op \in {"set", "from"} /\ Len(arg) >= cap) =>
           /\ buf # PanicBuff
           /\ buf.len = cap
           /\ buf.buff = SubSeq(arg, 1, cap)
    /\ buf # PanicBuff =>
           /\ (to_opt(buf) = None) <=> (buf.len = 0)
           /\ buf.len > 0 => (/\ to_opt(buf).some
                              /\ to_opt(buf).val = Stored(buf)
                              /\ Len(to_opt(buf).val) = buf.len)

C13_Witness ==
    /\ ops = 2
    /\ op = "set"
    /\ cap = UCI_MAX_LENGTH
    /\ Len(arg) > cap
    /\ buf.len = cap
    /\ arg = t_OO \o t_OO
    /\ to_opt(buf) = Some(<<"O", "-", "O", "O", "-">>)

(* C14: after any sequence of new, set, set_trim and from on a buffer of   *)
(* capacity N, 0 <= len <= N and the bytes at [0, len) are the leading len *)
(* bytes of the value most recently assigned.                              *)
C14_LenWithinCapacity ==
    /\ buf # PanicBuff
    /\ buf.len >= 0 /\ buf.len <= cap
    /\ Len(buf.buff) = cap
    /\ Assigned => (buf.len <= Len(arg) /\ Stored(buf) = SubSeq(arg, 1, buf.len))
    /\ ~Assigned => buf.len = 0

C14_Witness ==
    /\ ops = 2
    /\ op = "set_trim"
    /\ cap = UCI_MAX_LENGTH
    /\ trim = SP
    /\ arg = t_OO \o t_space \o t_e2e4 \o t_space
    /\ buf.len = 3
    /\ buf.buff = <<"O", "-", "O", "8", "q">>

(* the byte indices (from 0) of the value, not above n, that hold ch *)
CutPoints(v, ch, n) == {i \in 0..n : i < Len(v) /\ v[i + 1] = ch}

(* C20: for every value that holds trim_char at some byte index not above  *)
(* N, set_trim cuts the value at the last such index: len is that index    *)
(* (so len <= N) and the stored bytes are the leading len bytes of the     *)
(* value, unmodified.                                                      *)
C20_SetTrimCutsAtLast ==
    LET at == CutPoints(arg, trim, cap)
    IN  (ops > 0 /\ op = "set_trim" /\ at # {}) =>
            /\ buf # PanicBuff
            /\ buf.len = Max(at)
            /\ buf.len <= cap
            /\ Stored(buf) = SubSeq(arg, 1, Max(at))

C20_Witness ==
    /\ ops > 0
    /\ op = "set_trim"
    /\ cap = UCI_MAX_LENGTH
    /\ trim = SP
    /\ arg = t_e7e8q \o t_space \o t_OO \o t_space
    /\ CutPoints(arg, trim, Len(arg)) = {5, 9}
    /\ buf.len = 5
    /\ Stored(buf) = t_e7e8q

====
